---- MODULE Spec2Model ----
(***************************************************************************)
(* The registration / settlement engine of the WZ tournament platform:     *)
(* the users and tournaments tables, the read-through tournament cache,   *)
(* the row locks taken by the storage transactions, and the HTTP request  *)
(* handlers that run on top of them, one step per awaited operation.      *)
(***************************************************************************)
EXTENDS Integers, Sequences, FiniteSets, TLC

\* Largest maxParticipants a tournament is created with.
MaxCap == 2
\* Largest balance a user starts with.
MaxStars == 2

\* The requests in flight; each request slot serves one call.
Procs == {1, 2}
Users == {"u1", "u2"}
Tournaments == {"t1", "t2"}
Fees == {1, 2}
Amounts == {-1, 1}

VARIABLES
    users,        \* the users table: id -> row
    tournaments,  \* the tournaments table: id -> row
    cache,        \* DatabaseStorage.cache, the `tournament:<id>` entries
    tlock,        \* row lock on a tournaments row: holder, 0 when free
    ulock,        \* row lock on a users row: holder, 0 when free
    proc,         \* the requests: operation, position, locals, result
    ledger0,      \* the tables as they were at start (never changes)
    now,          \* Date.now(), in ticks of half the cache timeout
    kv,           \* DatabaseStorage.cache with its expiry stamps: key -> entry
    ret,          \* the last storage call made one at a time, and its answer
    calls,        \* how many such calls were made
    debited,      \* the fee taken by each user's latest registration
    hook          \* the client's useWebSocket hook: socket, timer, mounted

\* The variables of the storage calls made one at a time.
apiVars == <<now, kv, ret, calls, debited>>

vars == <<users, tournaments, cache, tlock, ulock, proc, ledger0, apiVars, hook>>

--------------------------------------------------------------------------
\* Rows

NoUser == [exists |-> FALSE, stars |-> 0, participatingTournaments |-> <<>>]

NoTournament ==
    [exists |-> FALSE, entryFee |-> 0, prize |-> 0, maxParticipants |-> 0,
     participants |-> <<>>, status |-> "upcoming"]

includes(seq, x) == \E i \in 1..Len(seq) : seq[i] = x

\* Array.prototype.indexOf, 1-based; 0 when absent.
indexOf(seq, x) ==
    IF includes(seq, x)
    THEN CHOOSE i \in 1..Len(seq) : seq[i] = x /\ \A j \in 1..(i - 1) : seq[j] # x
    ELSE 0

\* Array.prototype.splice(index, 1) on a copy.
splice(seq, i) == SubSeq(seq, 1, i - 1) \o SubSeq(seq, i + 1, Len(seq))

IdleProc ==
    [op |-> "none", pc |-> "idle", t |-> "-", u |-> "-", amt |-> 0,
     user |-> NoUser, tournament |-> NoTournament,
     txT |-> NoTournament, txU |-> NoUser, txOk |-> FALSE, why |-> "none",
     emits |-> 0, result |-> "-", after |-> {}]

\* A request that has answered: its locals are gone, its answer stays.
Finish(pr, res) ==
    [pr EXCEPT !.pc = "done", !.result = res, !.user = NoUser,
               !.tournament = NoTournament, !.txT = NoTournament,
               !.txU = NoUser]

\* A request as it arrives; `after` records the requests already answered.
NewCall(op, pc, t, u, amt) ==
    [IdleProc EXCEPT !.op = op, !.pc = pc, !.t = t, !.u = u, !.amt = amt,
                     !.after = {q \in DOMAIN proc : proc[q].pc = "done"}]

--------------------------------------------------------------------------
\* The cache (storage.ts getFromCache / setCache / invalidateCache)

\* storage.getTournament: the value returned.
getTournament(t) ==
    IF cache[t].exists THEN cache[t] ELSE tournaments[t]

\* storage.getTournament: the cache after the call.
cacheAfterGet(t) ==
    IF ~cache[t].exists /\ tournaments[t].exists
    THEN [cache EXCEPT ![t] = tournaments[t]]
    ELSE cache

\* invalidateCache(`tournament:${id}`)
invalidateCache(c, t) == [c EXCEPT ![t] = NoTournament]

\* An entry outlives its TTL and is dropped (lazily or by the sweep).
CacheExpire(t) ==
    /\ cache[t].exists
    /\ cache' = invalidateCache(cache, t)
    /\ UNCHANGED <<users, tournaments, tlock, ulock, proc, ledger0, apiVars, hook>>

--------------------------------------------------------------------------
\* The storage transactions (storage.ts registerForTournament,
\* unregisterFromTournament): SELECT ... FOR UPDATE on the tournaments row,
\* then on the users row, the checks, the two UPDATEs, the cache
\* invalidation, and the commit that ends db.transaction.

RegisterOps == {"routeRegister", "svcRegister", "joinTournament"}
UnregisterOps == {"routeUnregister", "svcUnregister"}
TxPcs == {"txLockT", "txLockU", "txBody", "txCommit"}

\* txPlan with unregisterFromTournament selecting the users row first.
txPlanUserFirst(op) ==
    IF op \in UnregisterOps
    THEN <<"txLockU", "txLockT", "txBody">>
    ELSE <<"txLockT", "txLockU", "txBody">>

\* The order of the statements of a storage transaction: the FOR UPDATE
\* select on tournaments, the one on users, then the checks and UPDATEs.
txPlan(op) == <<"txLockT", "txLockU", "txBody">>

\* The first statement of the transaction, and the one after statement pc.
txEntry(op) == txPlan(op)[1]
txAfter(op, pc) ==
    txPlan(op)[1 + CHOOSE i \in 1..2 : txPlan(op)[i] = pc]

\* lockFree without FOR UPDATE: the SELECT never waits.
lockNeverWaits(lock, holder) == TRUE

\* A row lock is granted when the row is free; a missing row locks nothing.
lockFree(lock, holder) == lock = 0 \/ lock = holder

TxLockTournament(p) ==
    LET pr == proc[p] IN
    /\ pr.pc = "txLockT"
    /\ tournaments[pr.t].exists => lockFree(tlock[pr.t], p)
    /\ tlock' = IF tournaments[pr.t].exists
                THEN [tlock EXCEPT ![pr.t] = p] ELSE tlock
    /\ proc' = [proc EXCEPT ![p].txT = tournaments[pr.t],
                            ![p].pc = txAfter(pr.op, "txLockT")]
    /\ UNCHANGED <<users, tournaments, cache, ulock, ledger0, apiVars, hook>>

TxLockUser(p) ==
    LET pr == proc[p] IN
    /\ pr.pc = "txLockU"
    /\ users[pr.u].exists => lockFree(ulock[pr.u], p)
    /\ ulock' = IF users[pr.u].exists
                THEN [ulock EXCEPT ![pr.u] = p] ELSE ulock
    /\ proc' = [proc EXCEPT ![p].txU = users[pr.u],
                            ![p].pc = txAfter(pr.op, "txLockU")]
    /\ UNCHANGED <<users, tournaments, cache, tlock, ledger0, apiVars, hook>>

\* registerChecks without the early return on a user already in the roster.
registerChecksNoMembership(tournament, user, userId) ==
    /\ tournament.exists /\ user.exists
    /\ ~(Len(tournament.participants) >= tournament.maxParticipants)
    /\ ~(user.stars < tournament.entryFee)

\* registerChecks with the capacity comparison off by one (> for >=).
registerChecksOffByOne(tournament, user, userId) ==
    /\ tournament.exists /\ user.exists
    /\ ~includes(tournament.participants, userId)
    /\ ~(Len(tournament.participants) > tournament.maxParticipants)
    /\ ~(user.stars < tournament.entryFee)

\* registerForTournament, the four early returns.
registerChecks(tournament, user, userId) ==
    /\ tournament.exists /\ user.exists
    /\ ~includes(tournament.participants, userId)
    /\ ~(Len(tournament.participants) >= tournament.maxParticipants)
    /\ ~(user.stars < tournament.entryFee)

\* unregisterFromTournament, the two early returns.
unregisterChecks(tournament, user, tournamentId, userId) ==
    /\ tournament.exists /\ user.exists
    /\ ~(indexOf(tournament.participants, userId) = 0
         \/ indexOf(user.participatingTournaments, tournamentId) = 0)

\* Which early return of registerForTournament is taken on the rows read
\* under lock; "none" when the UPDATEs run.
registerRefusal(tournament, user, userId) ==
    IF ~tournament.exists \/ ~user.exists THEN "NotFound"
    ELSE IF includes(tournament.participants, userId) THEN "AlreadyRegistered"
    ELSE IF Len(tournament.participants) >= tournament.maxParticipants
         THEN "CapacityExceeded"
    ELSE IF user.stars < tournament.entryFee THEN "InsufficientBalance"
    ELSE "none"

\* Which early return of unregisterFromTournament is taken.
unregisterRefusal(tournament, user, tournamentId, userId) ==
    IF ~tournament.exists \/ ~user.exists THEN "NotFound"
    ELSE IF indexOf(tournament.participants, userId) = 0
            \/ indexOf(user.participatingTournaments, tournamentId) = 0
         THEN "NotRegistered"
    ELSE "none"

\* The SET clauses of the UPDATEs, computed from the rows read under lock.
registerUserRow(user, tournament, tournamentId) ==
    [user EXCEPT !.stars = user.stars - tournament.entryFee,
                 !.participatingTournaments =
                     Append(user.participatingTournaments, tournamentId)]

registerTournamentRow(tournament, userId) ==
    [tournament EXCEPT !.participants = Append(tournament.participants, userId)]

unregisterUserRow(user, tournament, tournamentId) ==
    [user EXCEPT !.stars = user.stars + tournament.entryFee,
                 !.participatingTournaments =
                     splice(user.participatingTournaments,
                            indexOf(user.participatingTournaments, tournamentId))]

unregisterTournamentRow(tournament, userId) ==
    [tournament EXCEPT !.participants =
        splice(tournament.participants, indexOf(tournament.participants, userId))]

\* The checks and, when they pass, the UPDATEs (not yet committed) and the
\* cache invalidation, which the code performs inside the transaction.
TxBody(p) ==
    LET pr == proc[p]
        ok == IF pr.op \in RegisterOps
              THEN registerChecks(pr.txT, pr.txU, pr.u)
              ELSE unregisterChecks(pr.txT, pr.txU, pr.t, pr.u)
        why == IF pr.op \in RegisterOps
               THEN registerRefusal(pr.txT, pr.txU, pr.u)
               ELSE unregisterRefusal(pr.txT, pr.txU, pr.t, pr.u)
    IN
    /\ pr.pc = "txBody"
    /\ proc' = [proc EXCEPT ![p].txOk = ok, ![p].why = why,
                            ![p].pc = "txCommit"]
    /\ cache' = IF ok THEN invalidateCache(cache, pr.t) ELSE cache
    /\ UNCHANGED <<users, tournaments, tlock, ulock, ledger0, apiVars, hook>>

releaseLocks(lock, p) == [k \in DOMAIN lock |-> IF lock[k] = p THEN 0 ELSE lock[k]]

\* An UPDATE ... WHERE id = k changes the row only if it is still there.
updateRow(table, k, row) ==
    IF table[k].exists THEN [table EXCEPT ![k] = row] ELSE table

TxCommit(p) ==
    LET pr == proc[p] IN
    /\ pr.pc = "txCommit"
    /\ IF pr.txOk
       THEN IF pr.op \in RegisterOps
            THEN /\ users' = updateRow(users, pr.u,
                                 registerUserRow(pr.txU, pr.txT, pr.t))
                 /\ tournaments' = updateRow(tournaments, pr.t,
                                 registerTournamentRow(pr.txT, pr.u))
            ELSE /\ users' = updateRow(users, pr.u,
                                 unregisterUserRow(pr.txU, pr.txT, pr.t))
                 /\ tournaments' = updateRow(tournaments, pr.t,
                                 unregisterTournamentRow(pr.txT, pr.u))
       ELSE UNCHANGED <<users, tournaments>>
    /\ tlock' = releaseLocks(tlock, p)
    /\ ulock' = releaseLocks(ulock, p)
    /\ proc' = [proc EXCEPT ![p].pc = "afterTx",
                            ![p].txT = NoTournament, ![p].txU = NoUser]
    /\ UNCHANGED <<cache, ledger0, apiVars, hook>>

\* A persistence failure inside db.transaction: the transaction rolls back
\* and the exception reaches the handler's catch, which answers 500.
TxAbort(p) ==
    LET pr == proc[p] IN
    /\ pr.pc \in TxPcs
    /\ tlock' = releaseLocks(tlock, p)
    /\ ulock' = releaseLocks(ulock, p)
    /\ proc' = [proc EXCEPT ![p] = Finish(pr, "ServerError")]
    /\ UNCHANGED <<users, tournaments, cache, ledger0, apiVars, hook>>

--------------------------------------------------------------------------
\* routes.ts: POST and DELETE /api/tournaments/:id/register

StartRouteRegister(p, t, u) ==
    /\ proc[p].pc = "idle"
    /\ proc' = [proc EXCEPT ![p] =
                  NewCall("routeRegister", "getUser", t, u, 0)]
    /\ UNCHANGED <<users, tournaments, cache, tlock, ulock, ledger0, apiVars, hook>>

StartRouteUnregister(p, t, u) ==
    /\ proc[p].pc = "idle"
    /\ proc' = [proc EXCEPT ![p] =
                  NewCall("routeUnregister", "getUser", t, u, 0)]
    /\ UNCHANGED <<users, tournaments, cache, tlock, ulock, ledger0, apiVars, hook>>

\* storage.getUserByTelegramId and the 401 on a missing user.
RouteGetUser(p) ==
    LET pr == proc[p] IN
    /\ pr.pc = "getUser"
    /\ pr.op \in {"routeRegister", "routeUnregister"}
    /\ proc' = [proc EXCEPT ![p] =
                  IF ~users[pr.u].exists THEN Finish(pr, "UserNotFound")
                  ELSE IF pr.op = "routeRegister"
                  THEN [pr EXCEPT !.user = users[pr.u], !.pc = "getTournament"]
                  ELSE [pr EXCEPT !.pc = txEntry(pr.op)]]
    /\ UNCHANGED <<users, tournaments, cache, tlock, ulock, ledger0, apiVars, hook>>

\* The answer of the pre-checks of POST register on the rows it read; "pass"
\* when the handler goes on to storage.registerForTournament.
routeRegisterPrecheck(user, tournament) ==
    IF ~tournament.exists THEN "TournamentNotFound"
    ELSE IF user.stars < tournament.entryFee THEN "InsufficientStars"
    ELSE IF Len(tournament.participants) >= tournament.maxParticipants
         THEN "TournamentFull"
    ELSE "pass"

RouteRegisterPrecheck(p) ==
    LET pr == proc[p]
        tournament == getTournament(pr.t)
        answer == routeRegisterPrecheck(pr.user, tournament)
    IN
    /\ pr.pc = "getTournament"
    /\ pr.op = "routeRegister"
    /\ cache' = cacheAfterGet(pr.t)
    /\ proc' = [proc EXCEPT ![p] =
                  IF answer = "pass"
                  THEN [pr EXCEPT !.user = NoUser, !.pc = txEntry(pr.op)]
                  ELSE Finish(pr, answer)]
    /\ UNCHANGED <<users, tournaments, tlock, ulock, ledger0, apiVars, hook>>

\* After the storage call: the 400 on false; on true the handler re-reads the
\* tournament (through the cache), hands one notification to broadcast and
\* answers success. `emits` counts the notifications the request handed over.
RouteAfterTx(p) ==
    LET pr == proc[p] IN
    /\ pr.pc = "afterTx"
    /\ pr.op \in {"routeRegister", "routeUnregister"}
    /\ IF pr.txOk
       THEN /\ cache' = cacheAfterGet(pr.t)
            /\ proc' = [proc EXCEPT ![p] =
                          Finish([pr EXCEPT !.emits = pr.emits + 1], "ok")]
       ELSE /\ cache' = cache
            /\ proc' = [proc EXCEPT ![p] =
                          Finish(pr, IF pr.op = "routeRegister"
                                     THEN "AlreadyRegisteredOrFull"
                                     ELSE "NotRegistered")]
    /\ UNCHANGED <<users, tournaments, tlock, ulock, ledger0, apiVars, hook>>

\* The same point of the handler when broadcast throws (JSON.stringify or a
\* client's send): the call is inside the handler's try, so the catch
\* answers 500 after the transaction has committed.
RouteBroadcastThrows(p) ==
    LET pr == proc[p] IN
    /\ pr.pc = "afterTx"
    /\ pr.op \in {"routeRegister", "routeUnregister"}
    /\ pr.txOk
    /\ cache' = cacheAfterGet(pr.t)
    /\ proc' = [proc EXCEPT ![p] =
                  Finish([pr EXCEPT !.emits = pr.emits + 1], "ServerError")]
    /\ UNCHANGED <<users, tournaments, tlock, ulock, ledger0, apiVars, hook>>

--------------------------------------------------------------------------
\* services/userService.ts: UserService.awardStars / deductStars, called on
\* their own and from TournamentService. Each reads the user, then writes a
\* balance computed from the row it read (storage.updateUser).

StarterStars == 1000

max(a, b) == IF a >= b THEN a ELSE b

\* awardedStars without the Math.max(0, ...) clamp.
awardedStarsUnclamped(stars, amount) == stars + amount

\* awardStars: newStarsAmount
awardedStars(stars, amount) == max(0, stars + amount)

\* deductStars: the balance written
deductedStars(stars, amount) == stars - amount

\* UPDATE users SET stars = ... WHERE id = u
setStars(table, u, stars) ==
    IF table[u].exists THEN [table EXCEPT ![u].stars = stars] ELSE table

StartAwardStars(p, u, amount) ==
    /\ proc[p].pc = "idle"
    /\ proc' = [proc EXCEPT ![p] =
                  NewCall("awardStars", "awardRead", "-", u, amount)]
    /\ UNCHANGED <<users, tournaments, cache, tlock, ulock, ledger0, apiVars, hook>>

StartDeductStars(p, u, amount) ==
    /\ proc[p].pc = "idle"
    /\ proc' = [proc EXCEPT ![p] =
                  NewCall("deductStars", "deductRead", "-", u, amount)]
    /\ UNCHANGED <<users, tournaments, cache, tlock, ulock, ledger0, apiVars, hook>>

\* Where a request goes on when awardStars has returned.
afterAward(pr) ==
    CASE pr.op = "awardStars" -> Finish(pr, "ok")
      [] pr.op = "svcRegister" -> Finish(pr, "FailedToRegister")
      [] pr.op = "completeTournament" ->
             [pr EXCEPT !.user = NoUser, !.pc = "statusWrite"]
      [] OTHER -> [pr EXCEPT !.user = NoUser, !.pc = "getUpdated"]

AwardRead(p) ==
    LET pr == proc[p] IN
    /\ pr.pc = "awardRead"
    /\ proc' = [proc EXCEPT ![p] =
                  IF ~users[pr.u].exists
                  THEN IF pr.op = "awardStars" THEN Finish(pr, "null")
                       ELSE afterAward(pr)
                  ELSE [pr EXCEPT !.user = users[pr.u], !.pc = "awardWrite"]]
    /\ UNCHANGED <<users, tournaments, cache, tlock, ulock, ledger0, apiVars, hook>>

AwardWrite(p) ==
    LET pr == proc[p] IN
    /\ pr.pc = "awardWrite"
    /\ lockFree(ulock[pr.u], p)
    /\ users' = setStars(users, pr.u, awardedStars(pr.user.stars, pr.amt))
    /\ proc' = [proc EXCEPT ![p] = afterAward(pr)]
    /\ UNCHANGED <<tournaments, cache, tlock, ulock, ledger0, apiVars, hook>>

DeductRead(p) ==
    LET pr == proc[p] IN
    /\ pr.pc = "deductRead"
    /\ proc' = [proc EXCEPT ![p] =
                  IF ~users[pr.u].exists \/ users[pr.u].stars < pr.amt
                  THEN Finish(pr, IF pr.op = "deductStars" THEN "null"
                                  ELSE "FailedToDeduct")
                  ELSE [pr EXCEPT !.user = users[pr.u], !.pc = "deductWrite"]]
    /\ UNCHANGED <<users, tournaments, cache, tlock, ulock, ledger0, apiVars, hook>>

DeductWrite(p) ==
    LET pr == proc[p] IN
    /\ pr.pc = "deductWrite"
    /\ lockFree(ulock[pr.u], p)
    /\ users' = setStars(users, pr.u, deductedStars(pr.user.stars, pr.amt))
    /\ proc' = [proc EXCEPT ![p] =
                  IF pr.op = "deductStars" THEN Finish(pr, "ok")
                  ELSE [pr EXCEPT !.user = NoUser, !.pc = txEntry(pr.op)]]
    /\ UNCHANGED <<tournaments, cache, tlock, ulock, ledger0, apiVars, hook>>

--------------------------------------------------------------------------
\* services/userService.ts: TournamentService.registerUserForTournament and
\* unregisterUserFromTournament (the handlers of api/routes/tournamentRoutes).

StartSvcRegister(p, t, u) ==
    /\ proc[p].pc = "idle"
    /\ proc' = [proc EXCEPT ![p] =
                  NewCall("svcRegister", "getOrCreateUser", t, u, 0)]
    /\ UNCHANGED <<users, tournaments, cache, tlock, ulock, ledger0, apiVars, hook>>

StartSvcUnregister(p, t, u) ==
    /\ proc[p].pc = "idle"
    /\ proc' = [proc EXCEPT ![p] =
                  NewCall("svcUnregister", "getOrCreateUser", t, u, 0)]
    /\ UNCHANGED <<users, tournaments, cache, tlock, ulock, ledger0, apiVars, hook>>

\* userService.getOrCreateUser: the user row, created on first access.
SvcGetOrCreateUser(p) ==
    LET pr == proc[p]
        created == [exists |-> TRUE, stars |-> StarterStars,
                    participatingTournaments |-> <<>>]
    IN
    /\ pr.pc = "getOrCreateUser"
    /\ users' = IF users[pr.u].exists THEN users
                ELSE [users EXCEPT ![pr.u] = created]
    /\ proc' = [proc EXCEPT ![p].user = users'[pr.u], ![p].pc = "getTournament"]
    /\ UNCHANGED <<tournaments, cache, tlock, ulock, ledger0, apiVars, hook>>

\* registerUserForTournament: the answer of its checks on the rows it read.
svcRegisterPrecheck(user, tournament, userId) ==
    IF ~tournament.exists THEN "TournamentNotFound"
    ELSE IF tournament.status # "upcoming" THEN "NotAcceptingRegistrations"
    ELSE IF user.stars < tournament.entryFee THEN "InsufficientStars"
    ELSE IF Len(tournament.participants) >= tournament.maxParticipants
         THEN "TournamentFull"
    ELSE IF includes(tournament.participants, userId) THEN "AlreadyRegistered"
    ELSE "pass"

\* unregisterUserFromTournament: the answer of its checks.
svcUnregisterPrecheck(tournament, userId) ==
    IF ~tournament.exists THEN "TournamentNotFound"
    ELSE IF tournament.status # "upcoming" THEN "TournamentStarted"
    ELSE IF ~includes(tournament.participants, userId) THEN "NotRegistered"
    ELSE "pass"

\* storage.getTournament and the checks; the entry fee read here is the
\* amount later deducted and refunded.
SvcPrecheck(p) ==
    LET pr == proc[p]
        tournament == getTournament(pr.t)
        answer == IF pr.op = "svcRegister"
                  THEN svcRegisterPrecheck(pr.user, tournament, pr.u)
                  ELSE svcUnregisterPrecheck(tournament, pr.u)
    IN
    /\ pr.pc = "getTournament"
    /\ pr.op \in {"svcRegister", "svcUnregister"}
    /\ cache' = cacheAfterGet(pr.t)
    /\ proc' = [proc EXCEPT ![p] =
                  IF answer = "pass"
                  THEN [pr EXCEPT !.user = NoUser, !.amt = tournament.entryFee,
                                  !.pc = IF pr.op = "svcRegister"
                                         THEN "deductRead" ELSE txEntry(pr.op)]
                  ELSE Finish(pr, answer)]
    /\ UNCHANGED <<users, tournaments, tlock, ulock, ledger0, apiVars, hook>>

\* After the storage call. Register: on false the fee is refunded through
\* awardStars; on true the tournament is re-read. Unregister: on true the
\* fee is refunded through awardStars.
SvcAfterTx(p) ==
    LET pr == proc[p] IN
    /\ pr.pc = "afterTx"
    /\ pr.op \in {"svcRegister", "svcUnregister"}
    /\ IF pr.op = "svcRegister" /\ pr.txOk
       THEN /\ cache' = cacheAfterGet(pr.t)
            /\ proc' = [proc EXCEPT ![p] = Finish(pr, "ok")]
       ELSE /\ cache' = cache
            /\ proc' = [proc EXCEPT ![p] =
                          IF pr.op = "svcUnregister" /\ ~pr.txOk
                          THEN Finish(pr, "FailedToUnregister")
                          ELSE [pr EXCEPT !.pc = "awardRead"]]
    /\ UNCHANGED <<users, tournaments, tlock, ulock, ledger0, apiVars, hook>>

\* unregisterUserFromTournament, after the refund: the tournament re-read.
SvcGetUpdated(p) ==
    LET pr == proc[p] IN
    /\ pr.pc = "getUpdated"
    /\ cache' = cacheAfterGet(pr.t)
    /\ proc' = [proc EXCEPT ![p] = Finish(pr, "ok")]
    /\ UNCHANGED <<users, tournaments, tlock, ulock, ledger0, apiVars, hook>>

--------------------------------------------------------------------------
\* storage.deleteTournament (DELETE /api/tournaments/:id): one DELETE, which
\* waits for the row lock, and the cache invalidation when a row was deleted.

DeleteTournament(p, t) ==
    /\ proc[p].pc = "idle"
    /\ lockFree(tlock[t], p)
    /\ tournaments' = [tournaments EXCEPT ![t] = NoTournament]
    /\ cache' = IF tournaments[t].exists THEN invalidateCache(cache, t) ELSE cache
    /\ proc' = [proc EXCEPT ![p] =
                  Finish(NewCall("deleteTournament", "idle", t, "-", 0),
                         IF tournaments[t].exists THEN "ok"
                         ELSE "TournamentNotFound")]
    /\ UNCHANGED <<users, tlock, ulock, ledger0, apiVars, hook>>

--------------------------------------------------------------------------
\* services/userService.ts, the tournament service: joinTournament,
\* updateTournamentStatus, startTournament, completeTournament.

StartJoinTournament(p, t, u) ==
    /\ proc[p].pc = "idle"
    /\ proc' = [proc EXCEPT ![p] =
                  NewCall("joinTournament", "getTournament", t, u, 0)]
    /\ UNCHANGED <<users, tournaments, cache, tlock, ulock, ledger0, apiVars, hook>>

\* getTournamentById and the status test, before the storage transaction.
JoinPrecheck(p) ==
    LET pr == proc[p]
        tournament == getTournament(pr.t)
    IN
    /\ pr.pc = "getTournament"
    /\ pr.op = "joinTournament"
    /\ cache' = cacheAfterGet(pr.t)
    /\ proc' = [proc EXCEPT ![p] =
                  IF ~tournament.exists \/ tournament.status # "upcoming"
                  THEN Finish(pr, "false")
                  ELSE [pr EXCEPT !.pc = txEntry(pr.op)]]
    /\ UNCHANGED <<users, tournaments, tlock, ulock, ledger0, apiVars, hook>>

\* joinTournament returns what storage.registerForTournament returned.
JoinAfterTx(p) ==
    LET pr == proc[p] IN
    /\ pr.pc = "afterTx"
    /\ pr.op = "joinTournament"
    /\ proc' = [proc EXCEPT ![p] = Finish(pr, IF pr.txOk THEN "ok" ELSE "false")]
    /\ UNCHANGED <<users, tournaments, cache, tlock, ulock, ledger0, apiVars, hook>>

\* storage.updateTournament(id, {status}): UPDATE ... SET status.
setStatus(table, t, status) ==
    IF table[t].exists THEN [table EXCEPT ![t].status = status] ELSE table

\* updateTournamentStatus: one UPDATE, which waits for the row lock, and the
\* cache invalidation when a row was updated.
UpdateTournamentStatus(p, t, status) ==
    /\ proc[p].pc = "idle"
    /\ lockFree(tlock[t], p)
    /\ tournaments' = setStatus(tournaments, t, status)
    /\ cache' = IF tournaments[t].exists THEN invalidateCache(cache, t) ELSE cache
    /\ proc' = [proc EXCEPT ![p] =
                  Finish(NewCall("updateTournamentStatus", "idle", t, "-", 0),
                         IF tournaments[t].exists THEN "ok" ELSE "null")]
    /\ UNCHANGED <<users, tlock, ulock, ledger0, apiVars, hook>>

StartStartTournament(p, t) ==
    /\ proc[p].pc = "idle"
    /\ proc' = [proc EXCEPT ![p] =
                  NewCall("startTournament", "statusRead", t, "-", 0)]
    /\ UNCHANGED <<users, tournaments, cache, tlock, ulock, ledger0, apiVars, hook>>

\* winnerId is "-" when the call names no winner.
StartCompleteTournament(p, t, winnerId) ==
    /\ proc[p].pc = "idle"
    /\ proc' = [proc EXCEPT ![p] =
                  NewCall("completeTournament", "statusRead", t, winnerId, 0)]
    /\ UNCHANGED <<users, tournaments, cache, tlock, ulock, ledger0, apiVars, hook>>

\* storage.getTournament and the status test of startTournament (upcoming)
\* and completeTournament (active); completeTournament then awards the
\* prize to a winner who is in the roster it read.
StatusRead(p) ==
    LET pr == proc[p]
        tournament == getTournament(pr.t)
        required == IF pr.op = "startTournament" THEN "upcoming" ELSE "active"
    IN
    /\ pr.pc = "statusRead"
    /\ cache' = cacheAfterGet(pr.t)
    /\ proc' = [proc EXCEPT ![p] =
                  IF ~tournament.exists \/ tournament.status # required
                  THEN Finish(pr, "null")
                  ELSE IF /\ pr.op = "completeTournament"
                          /\ includes(tournament.participants, pr.u)
                  THEN [pr EXCEPT !.amt = tournament.prize, !.pc = "awardRead"]
                  ELSE [pr EXCEPT !.pc = "statusWrite"]]
    /\ UNCHANGED <<users, tournaments, tlock, ulock, ledger0, apiVars, hook>>

\* storage.updateTournament(tournamentId, {status: 'active' | 'completed'}).
StatusWrite(p) ==
    LET pr == proc[p]
        status == IF pr.op = "startTournament" THEN "active" ELSE "completed"
    IN
    /\ pr.pc = "statusWrite"
    /\ lockFree(tlock[pr.t], p)
    /\ tournaments' = setStatus(tournaments, pr.t, status)
    /\ cache' = IF tournaments[pr.t].exists
                THEN invalidateCache(cache, pr.t) ELSE cache
    /\ proc' = [proc EXCEPT ![p] =
                  Finish(pr, IF tournaments[pr.t].exists THEN "ok" ELSE "null")]
    /\ UNCHANGED <<users, tlock, ulock, ledger0, apiVars, hook>>

--------------------------------------------------------------------------
\* storage.ts, the calls of DatabaseStorage made one at a time, with the
\* cache as the Map it is: string keys, entries stamped with an expiry.

\* Largest value of the clock.
MaxNow == 4
\* Largest number of storage calls made one at a time.
MaxCalls == 3

\* cacheTimeout, five minutes, in ticks of the clock (one tick is 150 s).
cacheTimeout == 2

\* Strings are sequences of characters.
TournamentsWord == <<"t", "o", "u", "r", "n", "a", "m", "e", "n", "t", "s">>

\* 'tournaments:active'
ListKey == TournamentsWord \o <<":", "a", "c", "t", "i", "v", "e">>

idChars(t) == IF t = "t1" THEN <<"t", "1">> ELSE <<"t", "2">>

\* `tournament:${id}`
tournamentKey(t) ==
    <<"t", "o", "u", "r", "n", "a", "m", "e", "n", "t", ":">> \o idChars(t)

CacheKeys == {ListKey} \cup {tournamentKey(t) : t \in Tournaments}

\* String.prototype.includes
stringIncludes(key, pattern) ==
    \E i \in 1..(Len(key) - Len(pattern) + 1) :
        SubSeq(key, i, i + Len(pattern) - 1) = pattern

\* A key the Map does not hold. An entry carries a tournament row (row) or
\* a listing (list), and its expiry.
NoEntry == [exists |-> FALSE, row |-> NoTournament, list |-> <<>>, expires |-> 0]

\* cacheHit with the entry already dropped at its expiry (>= for >).
cacheHitEarly(m, key) == m[key].exists /\ ~(now >= m[key].expires)

\* getFromCache: the entry is served unless it is missing or past its expiry.
cacheHit(m, key) == m[key].exists /\ ~(now > m[key].expires)

\* getFromCache, on a miss: this.cache.delete(key)
mapDelete(m, key) == [m EXCEPT ![key] = NoEntry]

setCache(m, key, row, list) ==
    [m EXCEPT ![key] = [exists |-> TRUE, row |-> row, list |-> list,
                        expires |-> now + cacheTimeout]]

\* invalidateCache where the list of tournaments is never dropped.
invalidateKeysKeepList(m, pattern) ==
    [key \in DOMAIN m |->
        IF stringIncludes(key, pattern) /\ key # ListKey THEN NoEntry ELSE m[key]]

\* invalidateCache(pattern): every key that includes the pattern is deleted.
invalidateKeys(m, pattern) ==
    [key \in DOMAIN m |->
        IF stringIncludes(key, pattern) THEN NoEntry ELSE m[key]]

\* The rows of the query of getTournaments: upcoming and active tournaments,
\* ordered by date (t1 is before t2).
TournamentOrder == <<"t1", "t2">>

listed(t, table) ==
    table[t].exists /\ table[t].status \in {"upcoming", "active"}

activeList(table) ==
    LET rowOf(t) == [id |-> t, row |-> table[t]] IN
    (IF listed("t1", table) THEN <<rowOf("t1")>> ELSE <<>>)
        \o (IF listed("t2", table) THEN <<rowOf("t2")>> ELSE <<>>)

NoCall ==
    [n |-> 0, op |-> "none", t |-> "-", u |-> "-", row |-> NoTournament,
     list |-> <<>>, queried |-> FALSE, ok |-> FALSE, delta |-> 0, at |-> 0]

\* The record of call number calls + 1, made at the present time.
Call(op, t, u) ==
    [NoCall EXCEPT !.n = calls + 1, !.op = op, !.t = t, !.u = u, !.at = now]

\* Time passes.
Tick ==
    /\ now < MaxNow
    /\ now' = now + 1
    /\ UNCHANGED <<users, tournaments, cache, tlock, ulock, proc, ledger0,
                   kv, ret, calls, debited, hook>>

\* cleanupExpiredCache, run by the interval timer.
CleanupExpiredCache ==
    /\ \E key \in CacheKeys : kv[key].exists /\ now > kv[key].expires
    /\ kv' = [key \in CacheKeys |->
                 IF now > kv[key].expires THEN NoEntry ELSE kv[key]]
    /\ UNCHANGED <<users, tournaments, cache, tlock, ulock, proc, ledger0,
                   now, ret, calls, debited, hook>>

\* storage.getTournament(id)
CallGetTournament(t) ==
    LET key == tournamentKey(t)
        hit == cacheHit(kv, key)
        row == tournaments[t]
    IN
    /\ calls < MaxCalls
    /\ kv' = IF hit THEN kv
             ELSE IF row.exists THEN setCache(mapDelete(kv, key), key, row, <<>>)
             ELSE mapDelete(kv, key)
    /\ ret' = [Call("getTournament", t, "-") EXCEPT
                  !.row = IF hit THEN kv[key].row ELSE row,
                  !.queried = ~hit,
                  !.ok = IF hit THEN TRUE ELSE row.exists]
    /\ calls' = calls + 1
    /\ UNCHANGED <<users, tournaments, cache, tlock, ulock, proc, ledger0,
                   now, debited, hook>>

\* storage.getTournaments()
CallGetTournaments ==
    LET hit == cacheHit(kv, ListKey)
        list == activeList(tournaments)
    IN
    /\ calls < MaxCalls
    /\ kv' = IF hit THEN kv
             ELSE setCache(mapDelete(kv, ListKey), ListKey, NoTournament, list)
    /\ ret' = [Call("getTournaments", "-", "-") EXCEPT
                  !.list = IF hit THEN kv[ListKey].list ELSE list,
                  !.queried = ~hit,
                  !.ok = TRUE]
    /\ calls' = calls + 1
    /\ UNCHANGED <<users, tournaments, cache, tlock, ulock, proc, ledger0,
                   now, debited, hook>>

\* storage.createTournament: the id is a fresh one.
CallCreateTournament(t, entryFee, maxParticipants) ==
    LET row == [exists |-> TRUE, entryFee |-> entryFee, prize |-> 1,
                maxParticipants |-> maxParticipants, participants |-> <<>>,
                status |-> "upcoming"]
    IN
    /\ calls < MaxCalls
    /\ ~tournaments[t].exists
    /\ tournaments' = [tournaments EXCEPT ![t] = row]
    /\ kv' = invalidateKeys(kv, TournamentsWord)
    /\ ret' = [Call("createTournament", t, "-") EXCEPT !.row = row, !.ok = TRUE]
    /\ calls' = calls + 1
    /\ UNCHANGED <<users, cache, tlock, ulock, proc, ledger0,
                   now, debited, hook>>

\* The request bodies of PUT /api/tournaments/:id: one column each.
TournamentUpdates ==
    {[field |-> "maxParticipants", value |-> 1]}
        \cup {[field |-> "entryFee", value |-> f] : f \in Fees}
        \cup {[field |-> "status", value |-> "active"]}
        \cup {[field |-> "participants", value |-> <<>>]}

\* UPDATE ... SET updates
setColumns(row, updates) ==
    CASE updates.field = "maxParticipants" ->
             [row EXCEPT !.maxParticipants = updates.value]
      [] updates.field = "entryFee" -> [row EXCEPT !.entryFee = updates.value]
      [] updates.field = "status" -> [row EXCEPT !.status = updates.value]
      [] updates.field = "participants" ->
             [row EXCEPT !.participants = updates.value]
      [] updates.field = "stars" -> [row EXCEPT !.stars = updates.value]
      [] updates.field = "participatingTournaments" ->
             [row EXCEPT !.participatingTournaments = updates.value]
      [] OTHER -> row

\* storage.updateTournament(id, updates), as PUT /api/tournaments/:id calls
\* it with the request body.
CallUpdateTournament(t, updates) ==
    LET found == tournaments[t].exists
        row == setColumns(tournaments[t], updates)
    IN
    /\ calls < MaxCalls
    /\ tournaments' = IF found THEN [tournaments EXCEPT ![t] = row]
                      ELSE tournaments
    /\ kv' = IF found
             THEN invalidateKeys(invalidateKeys(kv, TournamentsWord),
                                 tournamentKey(t))
             ELSE kv
    /\ ret' = [Call("updateTournament", t, "-") EXCEPT
                  !.row = IF found THEN row ELSE NoTournament, !.ok = found]
    /\ calls' = calls + 1
    /\ UNCHANGED <<users, cache, tlock, ulock, proc, ledger0,
                   now, debited, hook>>

\* storage.deleteTournament(id)
CallDeleteTournament(t) ==
    LET found == tournaments[t].exists IN
    /\ calls < MaxCalls
    /\ tournaments' = [tournaments EXCEPT ![t] = NoTournament]
    /\ kv' = IF found
             THEN invalidateKeys(invalidateKeys(kv, TournamentsWord),
                                 tournamentKey(t))
             ELSE kv
    /\ ret' = [Call("deleteTournament", t, "-") EXCEPT !.ok = found]
    /\ calls' = calls + 1
    /\ UNCHANGED <<users, cache, tlock, ulock, proc, ledger0,
                   now, debited, hook>>

\* storage.registerForTournament, the whole transaction.
CallRegister(t, u) ==
    LET tournament == tournaments[t]
        user == users[u]
        ok == registerChecks(tournament, user, u)
    IN
    /\ calls < MaxCalls
    /\ users' = IF ok
                THEN [users EXCEPT ![u] = registerUserRow(user, tournament, t)]
                ELSE users
    /\ tournaments' = IF ok
                      THEN [tournaments EXCEPT
                               ![t] = registerTournamentRow(tournament, u)]
                      ELSE tournaments
    /\ kv' = IF ok
             THEN invalidateKeys(invalidateKeys(kv, TournamentsWord),
                                 tournamentKey(t))
             ELSE kv
    /\ ret' = [Call("registerForTournament", t, u) EXCEPT
                  !.ok = ok, !.delta = users'[u].stars - users[u].stars]
    /\ debited' = IF ok THEN [debited EXCEPT ![u][t] = tournament.entryFee]
                  ELSE debited
    /\ calls' = calls + 1
    /\ UNCHANGED <<cache, tlock, ulock, proc, ledger0, now, hook>>

\* storage.unregisterFromTournament, the whole transaction.
CallUnregister(t, u) ==
    LET tournament == tournaments[t]
        user == users[u]
        ok == unregisterChecks(tournament, user, t, u)
    IN
    /\ calls < MaxCalls
    /\ users' = IF ok
                THEN [users EXCEPT ![u] = unregisterUserRow(user, tournament, t)]
                ELSE users
    /\ tournaments' = IF ok
                      THEN [tournaments EXCEPT
                               ![t] = unregisterTournamentRow(tournament, u)]
                      ELSE tournaments
    /\ kv' = IF ok
             THEN invalidateKeys(invalidateKeys(kv, TournamentsWord),
                                 tournamentKey(t))
             ELSE kv
    /\ ret' = [Call("unregisterFromTournament", t, u) EXCEPT
                  !.ok = ok, !.delta = users'[u].stars - users[u].stars]
    /\ calls' = calls + 1
    /\ UNCHANGED <<cache, tlock, ulock, proc, ledger0, now, debited, hook>>

\* The request bodies of the profile update: one column each; id is one of
\* the columns the service strips, username one the ledger does not hold.
UserUpdates ==
    {[field |-> "stars", value |-> MaxStars + 1],
     [field |-> "participatingTournaments", value |-> <<"t2">>],
     [field |-> "username", value |-> "x"],
     [field |-> "id", value |-> "x"]}

\* UserService.updateUser: id, telegramId and createdAt are taken out of the
\* body, the rest is handed to storage.updateUser.
allowedUpdates(updateData) ==
    IF updateData.field \in {"id", "telegramId", "createdAt"}
    THEN [field |-> "none", value |-> 0]
    ELSE updateData

CallUpdateUser(u, updateData) ==
    LET found == users[u].exists
        row == setColumns(users[u], allowedUpdates(updateData))
    IN
    /\ calls < MaxCalls
    /\ users' = IF found THEN [users EXCEPT ![u] = row] ELSE users
    /\ ret' = [Call("updateUser", "-", u) EXCEPT !.ok = found]
    /\ calls' = calls + 1
    /\ UNCHANGED <<tournaments, cache, tlock, ulock, proc, ledger0,
                   now, kv, debited, hook>>

--------------------------------------------------------------------------
\* docs/COMPONENTS.md, the revision of DatabaseStorage recorded there:
\* registerForTournament and unregisterFromTournament as four awaited
\* statements (getTournament, getUser, updateUser, updateTournament), each a
\* statement of its own on the database, with no transaction and no cache.

DocOps == {"docRegister", "docUnregister"}

StartDocRegister(p, t, u) ==
    /\ proc[p].pc = "idle"
    /\ proc' = [proc EXCEPT ![p] =
                  NewCall("docRegister", "docGetTournament", t, u, 0)]
    /\ UNCHANGED <<users, tournaments, cache, tlock, ulock, ledger0, apiVars, hook>>

StartDocUnregister(p, t, u) ==
    /\ proc[p].pc = "idle"
    /\ proc' = [proc EXCEPT ![p] =
                  NewCall("docUnregister", "docGetTournament", t, u, 0)]
    /\ UNCHANGED <<users, tournaments, cache, tlock, ulock, ledger0, apiVars, hook>>

\* const tournament = await this.getTournament(tournamentId)
DocGetTournament(p) ==
    LET pr == proc[p] IN
    /\ pr.pc = "docGetTournament"
    /\ proc' = [proc EXCEPT ![p].tournament = tournaments[pr.t],
                            ![p].pc = "docGetUser"]
    /\ UNCHANGED <<users, tournaments, cache, tlock, ulock, ledger0, apiVars, hook>>

\* const user = await this.getUser(userId), and the early returns.
DocGetUser(p) ==
    LET pr == proc[p]
        user == users[pr.u]
        ok == IF pr.op = "docRegister"
              THEN registerChecks(pr.tournament, user, pr.u)
              ELSE unregisterChecks(pr.tournament, user, pr.t, pr.u)
    IN
    /\ pr.pc = "docGetUser"
    /\ proc' = [proc EXCEPT ![p] =
                  IF ok THEN [pr EXCEPT !.user = user, !.pc = "docUpdateUser"]
                  ELSE Finish(pr, "false")]
    /\ UNCHANGED <<users, tournaments, cache, tlock, ulock, ledger0, apiVars, hook>>

\* await this.updateUser(userId, { stars, participatingTournaments }), the
\* values computed from the rows read before.
DocUpdateUser(p) ==
    LET pr == proc[p]
        set == IF pr.op = "docRegister"
               THEN registerUserRow(pr.user, pr.tournament, pr.t)
               ELSE unregisterUserRow(pr.user, pr.tournament, pr.t)
    IN
    /\ pr.pc = "docUpdateUser"
    /\ lockFree(ulock[pr.u], p)
    /\ users' = updateRow(users, pr.u,
                    [users[pr.u] EXCEPT
                        !.stars = set.stars,
                        !.participatingTournaments = set.participatingTournaments])
    /\ proc' = [proc EXCEPT ![p].pc = "docUpdateTournament"]
    /\ UNCHANGED <<tournaments, cache, tlock, ulock, ledger0, apiVars, hook>>

\* await this.updateTournament(tournamentId, { participants }); return true
DocUpdateTournament(p) ==
    LET pr == proc[p]
        set == IF pr.op = "docRegister"
               THEN registerTournamentRow(pr.tournament, pr.u)
               ELSE unregisterTournamentRow(pr.tournament, pr.u)
    IN
    /\ pr.pc = "docUpdateTournament"
    /\ lockFree(tlock[pr.t], p)
    /\ tournaments' = updateRow(tournaments, pr.t,
                          [tournaments[pr.t] EXCEPT
                              !.participants = set.participants])
    /\ proc' = [proc EXCEPT ![p] = Finish(pr, "true")]
    /\ UNCHANGED <<users, cache, tlock, ulock, ledger0, apiVars, hook>>

DocStep(p) ==
    \/ \E t \in Tournaments, u \in Users : StartDocRegister(p, t, u)
    \/ \E t \in Tournaments, u \in Users : StartDocUnregister(p, t, u)
    \/ DocGetTournament(p)
    \/ DocGetUser(p)
    \/ DocUpdateUser(p)
    \/ DocUpdateTournament(p)

--------------------------------------------------------------------------
\* client/src/services/websocket.tsx, the useWebSocket hook: wsRef,
\* reconnectTimeoutRef, reconnectAttemptsRef, and the effect that connects
\* on mount and cleans up on unmount.

maxReconnectAttempts == 5

\* The hook before its effect has run: no socket in wsRef, no timer pending.
InitHook ==
    [phase |-> "unmounted", socket |-> "none", timer |-> FALSE, attempts |-> 0]

\* The reconnection both onclose and the catch of connect attempt:
\* reconnectAttemptsRef.current++ and setTimeout(connect, finalDelay), while
\* fewer than maxReconnectAttempts were made.
scheduleReconnect(h) ==
    IF h.attempts < maxReconnectAttempts
    THEN [h EXCEPT !.attempts = h.attempts + 1, !.timer = TRUE]
    ELSE h

\* connect(): new WebSocket(wsUrl) puts a connecting socket in wsRef, or
\* throws, and then the catch schedules a reconnection.
connect(h, throws) ==
    IF throws THEN scheduleReconnect(h) ELSE [h EXCEPT !.socket = "connecting"]

\* The effect runs on mount: connect().
HookMount(throws) ==
    /\ hook.phase = "unmounted"
    /\ hook' = connect([hook EXCEPT !.phase = "mounted"], throws)
    /\ UNCHANGED <<users, tournaments, cache, tlock, ulock, proc, ledger0, apiVars>>

\* onopen: the attempts start over, a pending timer is cleared.
SocketOpens ==
    /\ hook.socket = "connecting"
    /\ hook' = [hook EXCEPT !.socket = "open", !.attempts = 0, !.timer = FALSE]
    /\ UNCHANGED <<users, tournaments, cache, tlock, ulock, proc, ledger0, apiVars>>

\* The close event of the socket (the server or the network closed it, the
\* connection failed, or close() was called on it): onclose.
SocketCloses ==
    /\ hook.socket \in {"connecting", "open", "closing"}
    /\ hook' = scheduleReconnect([hook EXCEPT !.socket = "closed"])
    /\ UNCHANGED <<users, tournaments, cache, tlock, ulock, proc, ledger0, apiVars>>

\* The reconnect timer fires: connect().
TimerFires(throws) ==
    /\ hook.timer
    /\ hook' = connect([hook EXCEPT !.timer = FALSE], throws)
    /\ UNCHANGED <<users, tournaments, cache, tlock, ulock, proc, ledger0, apiVars>>

\* The cleanup of the effect, on unmount: clearTimeout on the timer and
\* close() on the socket in wsRef, whose close event comes later.
HookCleanup ==
    /\ hook.phase = "mounted"
    /\ hook' = [hook EXCEPT
                   !.phase = "cleaned",
                   !.timer = FALSE,
                   !.socket = IF hook.socket \in {"connecting", "open"}
                              THEN "closing" ELSE hook.socket]
    /\ UNCHANGED <<users, tournaments, cache, tlock, ulock, proc, ledger0, apiVars>>

--------------------------------------------------------------------------
\* Initial state: the tables after seeding, before any request.

InitUsers ==
    {us \in [Users -> [exists : {TRUE}, stars : 0..MaxStars,
                        participatingTournaments : {<<>>}]] : TRUE}

InitTournaments ==
    {ts \in [Tournaments -> [exists : {TRUE}, entryFee : Fees, prize : {1},
                              maxParticipants : 1..MaxCap,
                              participants : {<<>>},
                              status : {"upcoming", "active"}]] :
        /\ ts["t1"].status = "upcoming"
        /\ ts["t2"].status = "active"
        /\ ts["t2"].entryFee = 1
        /\ ts["t2"].maxParticipants = MaxCap}

Init ==
    /\ users \in InitUsers
    /\ tournaments \in InitTournaments
    /\ cache = [t \in Tournaments |-> NoTournament]
    /\ tlock = [t \in Tournaments |-> 0]
    /\ ulock = [u \in Users |-> 0]
    /\ proc = [p \in Procs |-> IdleProc]
    /\ ledger0 = [users |-> users, tournaments |-> tournaments]
    /\ now = 0
    /\ kv = [key \in CacheKeys |-> NoEntry]
    /\ ret = NoCall
    /\ calls = 0
    /\ debited = [u \in Users |-> [t \in Tournaments |-> 0]]
    /\ hook = InitHook

TxStep(p) ==
    \/ TxLockTournament(p)
    \/ TxLockUser(p)
    \/ TxBody(p)
    \/ TxCommit(p)
    \/ TxAbort(p)

RouteStep(p) ==
    \/ \E t \in Tournaments, u \in Users : StartRouteRegister(p, t, u)
    \/ \E t \in Tournaments, u \in Users : StartRouteUnregister(p, t, u)
    \/ RouteGetUser(p)
    \/ RouteRegisterPrecheck(p)
    \/ RouteAfterTx(p)

\* Register and unregister requests only.
NextReg ==
    \/ \E p \in Procs : TxStep(p)
    \/ \E p \in Procs : RouteStep(p)
    \/ \E t \in Tournaments : CacheExpire(t)

SpecReg == Init /\ [][NextReg]_vars

\* SpecReg with every request that can take a step eventually taking one:
\* the event loop runs every continuation that is ready, and the database
\* grants a released row lock to a waiting transaction.
\* It starts from the initial tables whose balances and capacities are the
\* smallest or the largest.
InitCorners ==
    /\ Init
    /\ \A u \in Users : users[u].stars \in {0, MaxStars}
    /\ \A t \in Tournaments : tournaments[t].maxParticipants \in {1, MaxCap}

SpecRegFair ==
    /\ InitCorners /\ [][NextReg]_vars
    /\ \A p \in Procs : WF_vars(TxStep(p) \/ RouteStep(p))

StarsStep(p) ==
    \/ \E u \in Users, a \in Amounts : StartAwardStars(p, u, a)
    \/ \E u \in Users, a \in Amounts : StartDeductStars(p, u, a)
    \/ AwardRead(p)
    \/ AwardWrite(p)
    \/ DeductRead(p)
    \/ DeductWrite(p)

\* Register and unregister requests and balance adjustments.
NextBal ==
    \/ NextReg
    \/ \E p \in Procs : StarsStep(p)

SpecBal == Init /\ [][NextBal]_vars

SvcStep(p) ==
    \/ \E t \in Tournaments, u \in Users : StartSvcRegister(p, t, u)
    \/ \E t \in Tournaments, u \in Users : StartSvcUnregister(p, t, u)
    \/ SvcGetOrCreateUser(p)
    \/ SvcPrecheck(p)
    \/ SvcAfterTx(p)
    \/ SvcGetUpdated(p)

Next ==
    \/ NextBal
    \/ \E p \in Procs : SvcStep(p)
    \/ \E p \in Procs, t \in Tournaments : DeleteTournament(p, t)

Spec == Init /\ [][Next]_vars

\* Register and unregister requests with a notification dispatch that may
\* fail.
NextDispatch ==
    \/ NextReg
    \/ \E p \in Procs : RouteBroadcastThrows(p)

SpecDispatch == Init /\ [][NextDispatch]_vars

Statuses == {"upcoming", "active", "completed"}

StatusStep(p) ==
    \/ \E t \in Tournaments, u \in Users : StartJoinTournament(p, t, u)
    \/ JoinPrecheck(p)
    \/ JoinAfterTx(p)
    \/ \E t \in Tournaments, s \in Statuses : UpdateTournamentStatus(p, t, s)
    \/ \E t \in Tournaments : StartStartTournament(p, t)
    \/ \E t \in Tournaments, w \in Users \cup {"-"} :
           StartCompleteTournament(p, t, w)
    \/ StatusRead(p)
    \/ StatusWrite(p)
    \/ AwardRead(p)
    \/ AwardWrite(p)

\* Register and unregister requests against changes of status.
NextStatus ==
    \/ NextReg
    \/ \E p \in Procs : StatusStep(p)

SpecStatus == Init /\ [][NextStatus]_vars

\* The tables the storage calls made one at a time start from: the first
\* user with no stars or the most, the first tournament with room for one or
\* the most, at the lowest fee.
InitStore ==
    /\ InitCorners
    /\ users["u2"].stars = MaxStars
    /\ tournaments["t1"].entryFee = 1

\* The storage calls made one at a time, the clock and the sweep of the
\* cache.
NextStore ==
    \/ Tick
    \/ CleanupExpiredCache
    \/ \E t \in Tournaments : CallGetTournament(t)
    \/ CallGetTournaments
    \/ \E t \in Tournaments, f \in Fees, c \in 1..MaxCap :
           CallCreateTournament(t, f, c)
    \/ \E t \in Tournaments, b \in TournamentUpdates : CallUpdateTournament(t, b)
    \/ \E t \in Tournaments : CallDeleteTournament(t)
    \/ \E t \in Tournaments, u \in Users : CallRegister(t, u)
    \/ \E t \in Tournaments, u \in Users : CallUnregister(t, u)

SpecStore == InitStore /\ [][NextStore]_vars

\* The same next to updates of the users' profiles.
NextProfile ==
    \/ NextStore
    \/ \E u \in Users, b \in UserUpdates : CallUpdateUser(u, b)

SpecProfile == InitStore /\ [][NextProfile]_vars

\* Register and unregister calls on the revision of docs/COMPONENTS.md.
NextDocs == \E p \in Procs : DocStep(p)

SpecDocs == Init /\ [][NextDocs]_vars

\* The tables once the first user has registered in the second tournament
\* and the tournament has started.
InitPrize ==
    /\ \E us \in InitUsers, ts \in InitTournaments :
           /\ users = [us EXCEPT !["u1"].participatingTournaments = <<"t2">>]
           /\ tournaments = [ts EXCEPT !["t2"].participants = <<"u1">>]
    /\ cache = [t \in Tournaments |-> NoTournament]
    /\ tlock = [t \in Tournaments |-> 0]
    /\ ulock = [u \in Users |-> 0]
    /\ proc = [p \in Procs |-> IdleProc]
    /\ ledger0 = [users |-> users, tournaments |-> tournaments]
    /\ now = 0
    /\ kv = [key \in CacheKeys |-> NoEntry]
    /\ ret = NoCall
    /\ calls = 0
    /\ debited = [u \in Users |-> [t \in Tournaments |-> 0]]
    /\ hook = InitHook

PrizeStep(p) ==
    \/ \E t \in Tournaments, w \in Users \cup {"-"} :
           StartCompleteTournament(p, t, w)
    \/ StatusRead(p)
    \/ AwardRead(p)
    \/ AwardWrite(p)
    \/ StatusWrite(p)

\* completeTournament calls on a started tournament.
NextPrize == \E p \in Procs : PrizeStep(p)

SpecPrize == InitPrize /\ [][NextPrize]_vars

\* The life of one useWebSocket hook.
NextHook ==
    \/ \E throws \in BOOLEAN : HookMount(throws)
    \/ SocketOpens
    \/ SocketCloses
    \/ \E throws \in BOOLEAN : TimerFires(throws)
    \/ HookCleanup

SpecHook == Init /\ [][NextHook]_vars

\* GET /api/tournaments/:id: one storage.getTournament.
RouteGetTournament(t) ==
    /\ cache' = cacheAfterGet(t)
    /\ UNCHANGED <<users, tournaments, tlock, ulock, proc, ledger0, apiVars, hook>>

LookupStep(p) ==
    \/ SvcStep(p)
    \/ AwardRead(p)
    \/ AwardWrite(p)
    \/ DeductRead(p)
    \/ DeductWrite(p)

\* Register and unregister requests, through the routes and through the
\* service, next to lookups of a tournament; from the initial tables whose
\* balances and capacities are the smallest or the largest.
NextLookup ==
    \/ NextReg
    \/ \E p \in Procs : LookupStep(p)
    \/ \E t \in Tournaments : RouteGetTournament(t)

SpecLookup == InitCorners /\ [][NextLookup]_vars

--------------------------------------------------------------------------
\* Vocabulary of the properties

Done(p) == proc[p].pc = "done"
Started(p) == proc[p].pc # "idle"

InRoster(u, t) == includes(tournaments[t].participants, u)
Enrolled(u, t) == includes(users[u].participatingTournaments, t)

min(a, b) == IF a <= b THEN a ELSE b

\* The answers by which a handler reports that the user is already registered.
AlreadyRegisteredAnswers == {"AlreadyRegistered", "AlreadyRegisteredOrFull"}

\* u could register for t in the initial tables.
EligibleAtStart(u, t) ==
    /\ ledger0.users[u].exists
    /\ ledger0.tournaments[t].exists
    /\ ~includes(ledger0.tournaments[t].participants, u)
    /\ ledger0.users[u].stars >= ledger0.tournaments[t].entryFee

--------------------------------------------------------------------------
\* C1. Capacity: in every committed state, every tournament's roster holds at
\* most maxParticipants users, for every interleaving of register and
\* unregister requests.
CapacityInvariant ==
    \A t \in Tournaments :
        tournaments[t].exists =>
            Len(tournaments[t].participants) <= tournaments[t].maxParticipants

\* A roster is full and a register request of a user outside it was refused
\* by the storage transaction.
CapacityWitness ==
    \E t \in Tournaments, p \in Procs :
        /\ Len(tournaments[t].participants) = tournaments[t].maxParticipants
        /\ Done(p) /\ proc[p].op = "routeRegister" /\ proc[p].t = t
        /\ proc[p].result = "AlreadyRegisteredOrFull"
        /\ ~InRoster(proc[p].u, t)
        /\ EligibleAtStart(proc[p].u, t)

--------------------------------------------------------------------------
\* C2. When distinct users concurrently register for one upcoming tournament
\* with an empty roster and maxParticipants = K, and nothing else runs, then
\* once all calls have completed exactly min(K, number of eligible callers)
\* have succeeded and are in the roster.
RaceCallers == {p \in Procs : Started(p)}

RaceScenario(t) ==
    /\ RaceCallers # {}
    /\ \A p \in RaceCallers :
          /\ Done(p) /\ proc[p].op = "routeRegister" /\ proc[p].t = t
          /\ proc[p].result # "ServerError"
    /\ \A p, q \in RaceCallers : p # q => proc[p].u # proc[q].u
    /\ ledger0.tournaments[t].status = "upcoming"
    /\ ledger0.tournaments[t].participants = <<>>

RaceWinners == {p \in RaceCallers : proc[p].result = "ok"}

RaceExactlyMin ==
    \A t \in Tournaments :
        RaceScenario(t) =>
            LET eligible == {p \in RaceCallers : EligibleAtStart(proc[p].u, t)}
                k == min(ledger0.tournaments[t].maxParticipants,
                         Cardinality(eligible))
            IN /\ Cardinality(RaceWinners) = k
               /\ Len(tournaments[t].participants) = k
               /\ \A p \in RaceWinners : InRoster(proc[p].u, t)

\* Two eligible users raced for a single slot: one won, one was refused.
RaceWitness ==
    \E t \in Tournaments :
        /\ RaceScenario(t)
        /\ ledger0.tournaments[t].maxParticipants = 1
        /\ Cardinality(RaceCallers) = 2
        /\ \A p \in RaceCallers : EligibleAtStart(proc[p].u, t)
        /\ Cardinality(RaceWinners) = 1

--------------------------------------------------------------------------
\* C3. Every user's balance is >= 0 in every state reachable by register,
\* unregister, awardStars and deductStars.
BalanceNonNegative == \A u \in Users : users[u].stars >= 0

\* awardStars with a negative amount met a balance too small to cover it and
\* the balance stopped at zero.
BalanceWitness ==
    \E p \in Procs :
        /\ Done(p) /\ proc[p].op = "awardStars" /\ proc[p].result = "ok"
        /\ proc[p].amt < 0
        /\ ledger0.users[proc[p].u].stars + proc[p].amt < 0
        /\ \A q \in Procs \ {p} : ~Started(q)
        /\ users[proc[p].u].stars = 0

--------------------------------------------------------------------------
\* C4. Bidirectional membership: in every reachable state, u is in
\* t.participants if and only if t is in u.participatingTournaments,
\* tournament deletion included.
BidirectionalMembership ==
    \A u \in Users, t \in Tournaments : InRoster(u, t) <=> Enrolled(u, t)

--------------------------------------------------------------------------
\* C5. Status gate: a register or unregister request against a tournament
\* whose status is not upcoming never succeeds, and no step of it changes the
\* user's balance or enrolled set or the tournament's participants.
StatusGate ==
    [][\A p \in Procs :
          LET pr == proc'[p] IN
          (/\ proc'[p] # proc[p]
           /\ pr.op \in RegisterOps \cup UnregisterOps
           /\ tournaments[pr.t].exists
           /\ tournaments[pr.t].status # "upcoming")
          => /\ users'[pr.u] = users[pr.u]
             /\ tournaments'[pr.t] = tournaments[pr.t]
             /\ pr.result # "ok"]_vars

--------------------------------------------------------------------------
\* C6. No partial application: while a registration has debited the user's
\* balance for a tournament, the user is in its participants and the
\* tournament is in the user's enrolled set; and a registration that failed
\* by a persistence error, alone in the system, leaves the tables as they
\* were before the call.

\* Request p has taken the entry fee of proc[p].t from proc[p].u and has not
\* given it back.
DebitOutstanding(p) ==
    LET pr == proc[p] IN
    \/ /\ pr.op = "svcRegister"
       /\ \/ pr.pc \in TxPcs \cup {"afterTx", "awardRead", "awardWrite"}
          \/ pr.pc = "done" /\ pr.result \in {"ok", "ServerError"}
    \/ pr.op = "routeRegister" /\ pr.pc = "afterTx" /\ pr.txOk
    \/ pr.op = "routeRegister" /\ pr.pc = "done" /\ pr.result = "ok"

OnlyStarted(S) == \A q \in Procs \ S : ~Started(q)

NoPartialRegistration ==
    \A p \in Procs :
        /\ (DebitOutstanding(p) /\ OnlyStarted({p}))
               => InRoster(proc[p].u, proc[p].t) /\ Enrolled(proc[p].u, proc[p].t)
        /\ (/\ Done(p) /\ proc[p].op \in RegisterOps
            /\ proc[p].result = "ServerError" /\ OnlyStarted({p}))
               => users = ledger0.users /\ tournaments = ledger0.tournaments

--------------------------------------------------------------------------
\* C7. Register then unregister: when a user has registered for a tournament
\* and, once that call had returned, unregistered from it, both successfully
\* and with no other operation in the system, the balance is the one before the register, the
\* user is out of participants and the tournament out of enrolled.
RegisterUnregisterRestores ==
    \A p, q \in Procs :
        (/\ p # q /\ OnlyStarted({p, q})
         /\ Done(p) /\ proc[p].op \in RegisterOps /\ proc[p].result = "ok"
         /\ Done(q) /\ proc[q].op \in UnregisterOps /\ proc[q].result = "ok"
         /\ p \in proc[q].after
         /\ proc[p].t = proc[q].t /\ proc[p].u = proc[q].u
         /\ ~includes(ledger0.tournaments[proc[p].t].participants, proc[p].u))
        => /\ users[proc[p].u].stars = ledger0.users[proc[p].u].stars
           /\ ~InRoster(proc[p].u, proc[p].t)
           /\ ~Enrolled(proc[p].u, proc[p].t)

--------------------------------------------------------------------------
\* C8. A successful register(t, u), alone in the system, changes the tables
\* by exactly this: u's balance decreases by t's entry fee once, u is
\* appended to t's participants, t is added to u's enrolled list; every
\* other row and field is as before.
RegisterEffectExact ==
    \A p \in Procs :
        (/\ Done(p) /\ proc[p].op \in RegisterOps /\ proc[p].result = "ok"
         /\ OnlyStarted({p}))
        => LET t == proc[p].t
               u == proc[p].u
               u0 == ledger0.users[u]
               t0 == ledger0.tournaments[t]
           IN /\ users = [ledger0.users EXCEPT ![u] =
                    [u0 EXCEPT !.stars = u0.stars - t0.entryFee,
                               !.participatingTournaments =
                                   Append(u0.participatingTournaments, t)]]
              /\ tournaments = [ledger0.tournaments EXCEPT ![t] =
                    [t0 EXCEPT !.participants = Append(t0.participants, u)]]

--------------------------------------------------------------------------
\* C9. No double registration: when register(t, u) has succeeded and u is
\* still enrolled, a second register(t, u) issued after it is answered
\* AlreadyRegistered,
\* whatever u's remaining balance and the remaining capacity, and changes
\* neither u's balance nor t's participants.
SecondRegisterAlreadyRegistered ==
    \A p, q \in Procs :
        (/\ p # q /\ OnlyStarted({p, q})
         /\ Done(p) /\ proc[p].op \in RegisterOps /\ proc[p].result = "ok"
         /\ Done(q) /\ proc[q].op = "routeRegister"
         /\ p \in proc[q].after
         /\ proc[q].result # "ServerError"
         /\ proc[p].t = proc[q].t /\ proc[p].u = proc[q].u
         /\ proc[p].op = "routeRegister")
        => /\ proc[q].result \in AlreadyRegisteredAnswers
           /\ users[proc[p].u].stars =
                  ledger0.users[proc[p].u].stars
                      - ledger0.tournaments[proc[p].t].entryFee
           /\ tournaments[proc[p].t].participants = <<proc[p].u>>

--------------------------------------------------------------------------
\* C10. Failures change nothing: when every register and unregister call
\* issued so far has returned a failure, every user's balance and enrolled
\* set and every tournament's participants are as they were at the start.
FailedCallsLeaveNoTrace ==
    (/\ \E p \in Procs : Started(p)
     /\ \A p \in Procs :
           Started(p) =>
               /\ Done(p)
               /\ proc[p].op \in RegisterOps \cup UnregisterOps
               /\ proc[p].result \notin {"ok", "ServerError"})
    => users = ledger0.users /\ tournaments = ledger0.tournaments

--------------------------------------------------------------------------
\* C11. Order of the preconditions of register: tournament exists, user
\* exists, status is upcoming, user not in participants, roster below
\* maxParticipants, balance >= entryFee; a register call that fails reports
\* the earliest precondition that fails.

\* The earliest failing precondition of register(t, u) on the tables.
firstFailure(u, t) ==
    IF ~tournaments[t].exists THEN "NotFound"
    ELSE IF ~users[u].exists THEN "NotFound"
    ELSE IF tournaments[t].status # "upcoming" THEN "InvalidStatus"
    ELSE IF InRoster(u, t) THEN "AlreadyRegistered"
    ELSE IF Len(tournaments[t].participants) >= tournaments[t].maxParticipants
         THEN "CapacityExceeded"
    ELSE IF users[u].stars < tournaments[t].entryFee THEN "InsufficientBalance"
    ELSE "none"

\* The error kinds an answer of the handlers may stand for.
answerKinds(result) ==
    CASE result \in {"TournamentNotFound", "UserNotFound"} -> {"NotFound"}
      [] result \in {"NotAcceptingRegistrations", "TournamentStarted"} ->
             {"InvalidStatus"}
      [] result = "AlreadyRegistered" -> {"AlreadyRegistered"}
      [] result = "AlreadyRegisteredOrFull" ->
             {"AlreadyRegistered", "CapacityExceeded"}
      [] result = "TournamentFull" -> {"CapacityExceeded"}
      [] result = "InsufficientStars" -> {"InsufficientBalance"}
      [] result = "NotRegistered" -> {"NotRegistered"}
      [] OTHER -> {}

\* Request q ran with nothing else in flight: every other request had
\* answered before q arrived, or has not arrived.
RanAlone(q) ==
    \A p \in Procs \ {q} : ~Started(p) \/ p \in proc[q].after

RegisterReportsFirstFailure ==
    \A q \in Procs :
        (/\ Done(q) /\ proc[q].op \in RegisterOps /\ RanAlone(q)
         /\ proc[q].result \notin {"ok", "ServerError"})
        => firstFailure(proc[q].u, proc[q].t) \in answerKinds(proc[q].result)

--------------------------------------------------------------------------
\* C12. Typed results: a register or unregister that the storage transaction
\* refuses is answered with a result that names exactly the kind of the
\* refusal (NotFound, AlreadyRegistered, CapacityExceeded,
\* InsufficientBalance, NotRegistered); persistence failures aside, the
\* refusal is never turned into an exception.
RefusalsAreTyped ==
    \A p \in Procs :
        (/\ Done(p) /\ proc[p].op \in RegisterOps \cup UnregisterOps
         /\ proc[p].why # "none" /\ proc[p].result # "ServerError")
        => answerKinds(proc[p].result) = {proc[p].why}

--------------------------------------------------------------------------
\* C13. Re-validation under the holds: when the storage transaction of a
\* register or unregister call has approved the call, every precondition
\* (existence, status, membership, capacity, balance) holds of the rows as
\* they are while both row locks are held, whatever the caller's earlier
\* read without lock had seen. Stated of the callers that test the status
\* on such an earlier read.
StatusCheckedOps == {"joinTournament", "svcRegister", "svcUnregister"}

RevalidatedUnderLock ==
    \A p \in Procs :
        LET pr == proc[p] IN
        (pr.pc = "txCommit" /\ pr.txOk /\ pr.op \in StatusCheckedOps)
        => /\ tournaments[pr.t].exists /\ users[pr.u].exists
           /\ tournaments[pr.t].status = "upcoming"
           /\ IF pr.op \in RegisterOps
              THEN /\ ~InRoster(pr.u, pr.t)
                   /\ Len(tournaments[pr.t].participants)
                          < tournaments[pr.t].maxParticipants
                   /\ users[pr.u].stars >= tournaments[pr.t].entryFee
              ELSE InRoster(pr.u, pr.t)

--------------------------------------------------------------------------
\* C14. Serializability of the storage transactions: once every call has
\* returned, the committed tables and the value returned by every
\* registerForTournament / unregisterFromTournament call are those of the
\* same calls executed one after another, in some order, from the initial
\* tables.

\* The calls that ran the body of their storage transaction and returned.
StorageCalls ==
    {p \in Procs :
        /\ Done(p) /\ proc[p].op \in RegisterOps \cup UnregisterOps
        /\ proc[p].result # "ServerError"
        /\ proc[p].txOk \/ proc[p].why # "none"}

\* The storage call of request p executed alone on the tables tabs.
seqApply(tabs, p) ==
    LET t == proc[p].t
        u == proc[p].u
        tr == tabs.tournaments[t]
        ur == tabs.users[u]
    IN IF proc[p].op \in RegisterOps
       THEN IF registerChecks(tr, ur, u)
            THEN [users |-> updateRow(tabs.users, u, registerUserRow(ur, tr, t)),
                  tournaments |-> updateRow(tabs.tournaments, t,
                                            registerTournamentRow(tr, u)),
                  ok |-> TRUE]
            ELSE [users |-> tabs.users, tournaments |-> tabs.tournaments,
                  ok |-> FALSE]
       ELSE IF unregisterChecks(tr, ur, t, u)
            THEN [users |-> updateRow(tabs.users, u, unregisterUserRow(ur, tr, t)),
                  tournaments |-> updateRow(tabs.tournaments, t,
                                            unregisterTournamentRow(tr, u)),
                  ok |-> TRUE]
            ELSE [users |-> tabs.users, tournaments |-> tabs.tournaments,
                  ok |-> FALSE]

\* The calls order[i..] executed one after another from tabs: the final
\* tables, and whether every call returned what it returned in this run.
RECURSIVE seqRun(_, _, _)
seqRun(order, i, tabs) ==
    IF i > Len(order)
    THEN [users |-> tabs.users, tournaments |-> tabs.tournaments, agree |-> TRUE]
    ELSE LET r == seqApply(tabs, order[i])
             rest == seqRun(order, i + 1, r)
         IN [rest EXCEPT !.agree = rest.agree /\ r.ok = proc[order[i]].txOk]

Orders(S) ==
    {o \in UNION {[1..n -> S] : n \in {Cardinality(S)}} :
        \A i, j \in DOMAIN o : i # j => o[i] # o[j]}

Serializable ==
    (\A p \in Procs : Started(p) => Done(p))
    => \E o \in Orders(StorageCalls) :
           LET r == seqRun(o, 1, ledger0) IN
           /\ r.agree
           /\ users = r.users
           /\ tournaments = r.tournaments

\* Two register calls raced for the last slot of a tournament: both passed
\* the handler's capacity test, one transaction was approved and the other,
\* which waited for the row lock, was refused for capacity.
SerializableWitness ==
    \E p, q \in StorageCalls :
        /\ p # q /\ proc[p].t = proc[q].t
        /\ proc[p].op = "routeRegister" /\ proc[q].op = "routeRegister"
        /\ proc[p].txOk
        /\ ~proc[q].txOk /\ proc[q].why = "CapacityExceeded"

--------------------------------------------------------------------------
\* C15. Balance mutations of a user are totally ordered: once every call
\* has returned, the tables and the outcome of every register, unregister,
\* awardStars and deductStars call are those of the same calls applied one
\* after another in some order, so that no debit or credit is lost or
\* computed from a stale balance.
StarsCalls == {p \in Procs : Done(p) /\ proc[p].op \in {"awardStars", "deductStars"}}

\* Whether call p succeeded in this run.
succeeded(p) ==
    IF p \in StarsCalls THEN proc[p].result = "ok" ELSE proc[p].txOk

\* Call p executed alone on the tables tabs.
seqApplyAny(tabs, p) ==
    LET u == proc[p].u
        stars == tabs.users[u].stars
        unchanged == [users |-> tabs.users, tournaments |-> tabs.tournaments,
                      ok |-> FALSE]
    IN CASE proc[p].op = "awardStars" ->
              [users |-> setStars(tabs.users, u, awardedStars(stars, proc[p].amt)),
               tournaments |-> tabs.tournaments, ok |-> tabs.users[u].exists]
         [] proc[p].op = "deductStars" ->
              IF ~tabs.users[u].exists \/ stars < proc[p].amt THEN unchanged
              ELSE [users |-> setStars(tabs.users, u,
                                       deductedStars(stars, proc[p].amt)),
                    tournaments |-> tabs.tournaments, ok |-> TRUE]
         [] OTHER -> seqApply(tabs, p)

RECURSIVE seqRunAny(_, _, _)
seqRunAny(order, i, tabs) ==
    IF i > Len(order)
    THEN [users |-> tabs.users, tournaments |-> tabs.tournaments, agree |-> TRUE]
    ELSE LET r == seqApplyAny(tabs, order[i])
             rest == seqRunAny(order, i + 1, r)
         IN [rest EXCEPT !.agree = rest.agree /\ r.ok = succeeded(order[i])]

BalanceMutationsOrdered ==
    (\A p \in Procs : Started(p) => Done(p))
    => \E o \in Orders(StorageCalls \cup StarsCalls) :
           LET r == seqRunAny(o, 1, ledger0) IN
           /\ r.agree
           /\ users = r.users

--------------------------------------------------------------------------
\* C16. Lock order and progress: register and unregister take the
\* tournaments row lock before the users row lock and never the other way
\* round; no set of concurrent register / unregister calls reaches a state
\* in which every transaction waits for a lock another one keeps; and every
\* started call eventually returns (committed or aborted).

\* Request p waits for a row lock that another transaction holds.
Blocked(p) ==
    \/ /\ proc[p].pc = "txLockT" /\ tournaments[proc[p].t].exists
       /\ ~lockFree(tlock[proc[p].t], p)
    \/ /\ proc[p].pc = "txLockU" /\ users[proc[p].u].exists
       /\ ~lockFree(ulock[proc[p].u], p)

InTx(p) == proc[p].pc \in TxPcs

TournamentLockFirst ==
    \A p \in Procs, u \in Users :
        ulock[u] = p => tlock[proc[p].t] = p

NoDeadlock ==
    (\E p \in Procs : InTx(p)) => \E p \in Procs : InTx(p) /\ ~Blocked(p)

LockOrderAndProgress ==
    /\ [](TournamentLockFirst /\ NoDeadlock)
    /\ \A p \in Procs : Started(p) ~> Done(p)

\* An unregister waits for the tournaments row while the register of the
\* same user that holds it also holds that user's row.
LockOrderWitness ==
    \E p, q \in Procs :
        /\ proc[p].op = "routeRegister" /\ proc[q].op = "routeUnregister"
        /\ Blocked(q) /\ proc[q].pc = "txLockT"
        /\ tlock[proc[q].t] = p
        /\ ulock[proc[q].u] = p

--------------------------------------------------------------------------
\* C17. Status is monotonic: every step leaves a tournament's status as it
\* is or moves it from upcoming to active or from active to completed.
StatusMonotonic ==
    [][\A t \in Tournaments :
          (tournaments[t].exists /\ tournaments'[t].exists)
          => \/ tournaments'[t].status = tournaments[t].status
             \/ /\ tournaments[t].status = "upcoming"
                /\ tournaments'[t].status = "active"
             \/ /\ tournaments[t].status = "active"
                /\ tournaments'[t].status = "completed"]_vars

--------------------------------------------------------------------------
\* C18. Notifications: a register or unregister call hands a notification
\* to the emitter only once its transaction has committed, exactly one when
\* the call succeeds and none when it is refused.
Committed(p) == proc[p].txOk /\ proc[p].pc \in {"afterTx", "done"}

OneNotificationPerSuccess ==
    \A p \in Procs :
        (proc[p].op \in RegisterOps \cup UnregisterOps)
        => /\ proc[p].emits > 0 => Committed(p)
           /\ (Done(p) /\ proc[p].result = "ok") => proc[p].emits = 1
           /\ (Done(p) /\ proc[p].result \notin {"ok", "ServerError"})
                  => proc[p].emits = 0

--------------------------------------------------------------------------
\* C19. A failure of the notification dispatch after a committed register
\* or unregister leaves the change committed and the caller still receives
\* the success result.
DispatchFailureHarmless ==
    \A p \in Procs :
        (/\ Done(p) /\ proc[p].op \in {"routeRegister", "routeUnregister"}
         /\ proc[p].emits > 0 /\ RanAlone(p))
        => /\ proc[p].result = "ok"
           /\ proc[p].op = "routeRegister"
                  => InRoster(proc[p].u, proc[p].t) /\ Enrolled(proc[p].u, proc[p].t)
           /\ proc[p].op = "routeUnregister"
                  => ~InRoster(proc[p].u, proc[p].t)

--------------------------------------------------------------------------
\* C20. Cache invalidation on commit: the cached tournament is dropped only
\* once the transaction has committed, so a reader that misses the cache
\* cannot load and keep the roster from before the commit: whenever no
\* transaction on a tournament is in progress, a cached entry of it carries
\* the committed roster.
CacheHoldsCommittedRoster ==
    \A t \in Tournaments :
        (/\ cache[t].exists
         /\ \A p \in Procs : ~(InTx(p) /\ proc[p].t = t))
        => cache[t].participants = tournaments[t].participants

--------------------------------------------------------------------------
\* C21. The outcome of a register or unregister call depends on the store
\* only, never on the cache: a call that ran with nothing else in flight and
\* was turned down by the checks made before the transaction gets the
\* answer those checks give on the rows of the store, whatever the cache
\* held (for one, a roster cached before the last commit).
PrecheckAnswers ==
    {"TournamentNotFound", "NotAcceptingRegistrations", "InsufficientStars",
     "TournamentFull", "AlreadyRegistered", "TournamentStarted", "NotRegistered"}

precheckOnStore(pr) ==
    CASE pr.op = "svcRegister" ->
             svcRegisterPrecheck(users[pr.u], tournaments[pr.t], pr.u)
      [] pr.op = "svcUnregister" ->
             svcUnregisterPrecheck(tournaments[pr.t], pr.u)
      [] OTHER -> routeRegisterPrecheck(users[pr.u], tournaments[pr.t])

OutcomeIndependentOfCache ==
    \A q \in Procs :
        (/\ Done(q) /\ RanAlone(q)
         /\ proc[q].op \in {"svcRegister", "svcUnregister", "routeRegister"}
         /\ proc[q].result \in PrecheckAnswers)
        => precheckOnStore(proc[q]) = proc[q].result

--------------------------------------------------------------------------
\* The cached reads, step by step.
insertedAt(key) == kv[key].expires - cacheTimeout

\* An entry exists that was inserted at most the timeout ago.
Fresh(key) == kv[key].exists /\ now - insertedAt(key) <= cacheTimeout

FreshEntry(row, list) ==
    [exists |-> TRUE, row |-> row, list |-> list, expires |-> now + cacheTimeout]

ReadsTournament(t) ==
    calls' = calls + 1 /\ ret'.op = "getTournament" /\ ret'.t = t

ReadsList == calls' = calls + 1 /\ ret'.op = "getTournaments"

\* The read returned the entry and did not query the store.
ServedFromCache(key) ==
    /\ ~ret'.queried
    /\ ret'.row = kv[key].row /\ ret'.list = kv[key].list
    /\ kv' = kv

\* The read returned what the store holds and stored it with a fresh expiry.
LoadedAndStored(key, row, list) ==
    /\ ret'.queried
    /\ ret'.row = row /\ ret'.list = list
    /\ kv'[key] = FreshEntry(row, list)

\* The read found no row, returned none and left no entry.
LoadedNothing(key) ==
    /\ ret'.queried
    /\ ret'.row = NoTournament /\ ~ret'.ok
    /\ ~kv'[key].exists

\* C22 as stated. getTournament and getTournaments return the cached value
\* without querying the store while an entry exists that was inserted at
\* most the timeout ago; otherwise (entry absent or older) the value is
\* loaded from the store, stored with the expiry now + timeout, and returned.
CachedReadStoresEveryLoad ==
    [][/\ \A t \in Tournaments :
             ReadsTournament(t) =>
                 IF Fresh(tournamentKey(t))
                 THEN ServedFromCache(tournamentKey(t))
                 ELSE LoadedAndStored(tournamentKey(t), tournaments[t], <<>>)
       /\ ReadsList =>
             IF Fresh(ListKey)
             THEN ServedFromCache(ListKey)
             ELSE LoadedAndStored(ListKey, NoTournament, activeList(tournaments))
      ]_vars

\* C22, amended. As above, except that a getTournament that finds no row in
\* the store returns none and stores no entry.
CachedReadStoresFoundRows ==
    [][/\ \A t \in Tournaments :
             ReadsTournament(t) =>
                 IF Fresh(tournamentKey(t))
                 THEN ServedFromCache(tournamentKey(t))
                 ELSE IF tournaments[t].exists
                 THEN LoadedAndStored(tournamentKey(t), tournaments[t], <<>>)
                 ELSE LoadedNothing(tournamentKey(t))
       /\ ReadsList =>
             IF Fresh(ListKey)
             THEN ServedFromCache(ListKey)
             ELSE LoadedAndStored(ListKey, NoTournament, activeList(tournaments))
      ]_vars

\* A getTournament served from an entry inserted exactly the timeout ago.
CachedReadWitness ==
    /\ ret.op = "getTournament" /\ ~ret.queried /\ ret.ok
    /\ kv[tournamentKey(ret.t)].exists
    /\ ret.at = kv[tournamentKey(ret.t)].expires
    /\ ret.at - insertedAt(tournamentKey(ret.t)) = cacheTimeout

--------------------------------------------------------------------------
--------------------------------------------------------------------------
\* C24. Frame of the updates: whatever the request body, UserService.updateUser
\* leaves every balance and every user's list of tournaments as they were,
\* and updateTournament (PUT /api/tournaments/:id) leaves every roster as it
\* was.
UpdateUserKeepsLedger ==
    (calls' = calls + 1 /\ ret'.op = "updateUser") =>
        \A u \in Users :
            /\ users'[u].stars = users[u].stars
            /\ users'[u].participatingTournaments =
                   users[u].participatingTournaments

UpdateTournamentKeepsRoster ==
    (calls' = calls + 1 /\ ret'.op = "updateTournament") =>
        \A t \in Tournaments :
            tournaments'[t].participants = tournaments[t].participants

UpdatesKeepLedger ==
    [][UpdateUserKeepsLedger /\ UpdateTournamentKeepsRoster]_vars

--------------------------------------------------------------------------
\* C25. No duplicates: in every state reached by register and unregister
\* calls, one after the other or interleaved, no roster holds a user id
\* twice and no user's list of tournaments holds a tournament id twice.
noDuplicates(seq) ==
    \A i, j \in 1..Len(seq) : seq[i] = seq[j] => i = j

NoDuplicateMembership ==
    /\ \A t \in Tournaments : noDuplicates(tournaments[t].participants)
    /\ \A u \in Users : noDuplicates(users[u].participatingTournaments)

\* Two registrations of one user in one tournament with room and stars for
\* both: one was let in, the other turned down under the lock.
NoDuplicateWitness ==
    \E p, q \in Procs :
        /\ p # q /\ Done(p) /\ Done(q)
        /\ proc[p].op = "routeRegister" /\ proc[q].op = "routeRegister"
        /\ proc[p].u = proc[q].u /\ proc[p].t = proc[q].t
        /\ proc[p].result = "ok" /\ proc[q].why = "AlreadyRegistered"
        /\ proc[q].result = "AlreadyRegisteredOrFull"
        /\ tournaments[proc[p].t].participants = <<proc[p].u>>
        /\ tournaments[proc[p].t].maxParticipants > 1
        /\ users[proc[p].u].stars >= tournaments[proc[p].t].entryFee

--------------------------------------------------------------------------
\* C26. Capacity under administration: an updateTournament never leaves a
\* tournament with more participants than its maxParticipants, also when
\* it changes maxParticipants while users are registered.
UpdateKeepsCapacity ==
    (ret.op = "updateTournament" /\ ret.ok) =>
        Len(tournaments[ret.t].participants) <= tournaments[ret.t].maxParticipants

--------------------------------------------------------------------------
\* C28. Refund equals debit: the amount a successful unregistration credits
\* is the amount the registration it cancels debited, also when an
\* updateTournament changed entryFee in between.
RefundEqualsDebit ==
    (ret.op = "unregisterFromTournament" /\ ret.ok) =>
        ret.delta = debited[ret.u][ret.t]

--------------------------------------------------------------------------
\* C27. Every revision of registerForTournament and unregisterFromTournament
\* in the source, the one recorded in docs/COMPONENTS.md included, runs its
\* reads, checks and two writes as one atomic unit: the rows a call has read
\* stay as it read them until it has written, and so no tournament ever
\* has more registered users than its maxParticipants. (Checked here on the
\* revision of docs/COMPONENTS.md; C1 and C14 are the revision of
\* storage.ts.)
DocReadsStillHold ==
    \A p \in Procs :
        /\ proc[p].pc = "docUpdateUser"
               => /\ proc[p].user = users[proc[p].u]
                  /\ proc[p].tournament = tournaments[proc[p].t]
        /\ proc[p].pc = "docUpdateTournament"
               => proc[p].tournament = tournaments[proc[p].t]

\* Neither the roster nor the set of users who paid and hold the tournament
\* in their list is larger than maxParticipants.
DocCapacityHolds ==
    \A t \in Tournaments :
        /\ Len(tournaments[t].participants) <= tournaments[t].maxParticipants
        /\ Cardinality({u \in Users : Enrolled(u, t)})
               <= tournaments[t].maxParticipants

EveryRevisionAtomic == DocReadsStillHold /\ DocCapacityHolds

--------------------------------------------------------------------------
\* C29. Settlement is idempotent: however completeTournament calls on a
\* tournament interleave, its prize is credited at most once in all and only
\* to a user of its roster; a call on a tournament that is not active
\* credits nothing and changes nothing.
credited(u) == users[u].stars - ledger0.users[u].stars

PrizeCreditedOnce ==
    /\ \A u \in Users :
           /\ credited(u) <= tournaments["t2"].prize
           /\ credited(u) > 0 => InRoster(u, "t2")
    /\ \A u, v \in Users : u # v => credited(u) = 0 \/ credited(v) = 0
    /\ \A q \in Procs :
           (/\ Done(q) /\ proc[q].op = "completeTournament"
            /\ proc[q].result = "null"
            /\ \A p \in Procs \ {q} : ~Started(p))
           => /\ users = ledger0.users
              /\ tournaments = ledger0.tournaments

--------------------------------------------------------------------------
\* C30. Once the cleanup of the useWebSocket hook has run, no further
\* WebSocket connection is opened and no reconnect timer is scheduled,
\* whether the close event of the socket comes before or after the cleanup.
QuietAfterCleanup ==
    [][hook.phase = "cleaned" =>
          /\ ~(hook'.timer /\ ~hook.timer)
          /\ ~(hook'.socket = "connecting" /\ hook.socket # "connecting")
      ]_vars

====
